---- MODULE Spec2Model ----
(***************************************************************************)
(* Model of mod.ts of the DenoGenesis meta-documentation framework: the    *)
(* compliance validator (validateCompliance) and the ADR factory           *)
(* (createADR).  Arrays and objects created by the functions live in a     *)
(* heap and are handed out by reference, as in JavaScript; callers invoke  *)
(* the functions and every completed invocation is recorded in a log.      *)
(***************************************************************************)
EXTENDS Integers, Sequences, FiniteSets, TLC

VARIABLES arrays, objects, frames, log

vars == <<arrays, objects, frames, log>>

(***************************************************************************)
(* Bounds of the model.                                                    *)
(***************************************************************************)
\* number of callers that invoke the module's functions
NumCallers == 2
\* number of invocations started in one behaviour of Spec
MaxCalls == 3
\* number of flags of a checklist that are false or omitted (SpecOne)
MaxFalsy == 3

Callers == 1..NumCallers

(***************************************************************************)
(* ComplianceChecklist: the three sub-records and their flags, in the      *)
(* order the interface declares them.                                      *)
(***************************************************************************)
Categories == <<"unixPhilosophy", "security", "architecture">>

DeclaredFlags ==
  [unixPhilosophy |-> <<"singleResponsibility", "composable", "textBasedConfig",
                        "explicitDependencies", "minimalOutput">>,
   security       |-> <<"explicitPermissions", "inputValidation",
                        "parameterizedQueries", "multiTenantIsolation",
                        "defenseInDepth">>,
   architecture   |-> <<"followsHubSpoke", "adrCreated", "testsIncluded",
                        "documentationUpdated", "performanceConsidered">>]

Range(s) == {s[i] : i \in 1..Len(s)}

CategorySet == Range(Categories)

FlagSet(cat) == Range(DeclaredFlags[cat])

FlagsOf(P) == UNION {FlagSet(cat) : cat \in P}

(***************************************************************************)
(* validateCompliance: the flags in the order the if statements test them, *)
(* and the message each if statement pushes.                               *)
(***************************************************************************)
\* variant: the if statement for defenseInDepth is missing
CheckedFlagsOneMissing ==
  [unixPhilosophy |-> <<"singleResponsibility", "composable", "textBasedConfig",
                        "explicitDependencies", "minimalOutput">>,
   security       |-> <<"explicitPermissions", "inputValidation",
                        "parameterizedQueries", "multiTenantIsolation">>,
   architecture   |-> <<"followsHubSpoke", "adrCreated", "testsIncluded",
                        "documentationUpdated", "performanceConsidered">>]

CheckedFlags ==
  [unixPhilosophy |-> <<"singleResponsibility", "composable", "textBasedConfig",
                        "explicitDependencies", "minimalOutput">>,
   security       |-> <<"explicitPermissions", "inputValidation",
                        "parameterizedQueries", "multiTenantIsolation",
                        "defenseInDepth">>,
   architecture   |-> <<"followsHubSpoke", "adrCreated", "testsIncluded",
                        "documentationUpdated", "performanceConsidered">>]

\* variant: the message of composable is a copy of the one before it
MessageCopied ==
  [singleResponsibility  |-> "Module lacks single responsibility",
   composable            |-> "Module lacks single responsibility",
   textBasedConfig       |-> "Configuration is not text-based",
   explicitDependencies  |-> "Dependencies are not explicit",
   minimalOutput         |-> "Output is not minimal by default",
   explicitPermissions   |-> "Permissions are not explicit",
   inputValidation       |-> "Input validation is missing",
   parameterizedQueries  |-> "Queries are not parameterized",
   multiTenantIsolation  |-> "Multi-tenant isolation is missing",
   defenseInDepth        |-> "Defense-in-depth not implemented",
   followsHubSpoke       |-> "Doesn't follow hub-and-spoke pattern",
   adrCreated            |-> "ADR not created for architectural change",
   testsIncluded         |-> "Tests not included",
   documentationUpdated  |-> "Documentation not updated",
   performanceConsidered |-> "Performance not considered"]

\* variant: the messages of the first two security flags are exchanged
MessageExchanged ==
  [singleResponsibility  |-> "Module lacks single responsibility",
   composable            |-> "Module is not composable",
   textBasedConfig       |-> "Configuration is not text-based",
   explicitDependencies  |-> "Dependencies are not explicit",
   minimalOutput         |-> "Output is not minimal by default",
   explicitPermissions   |-> "Input validation is missing",
   inputValidation       |-> "Permissions are not explicit",
   parameterizedQueries  |-> "Queries are not parameterized",
   multiTenantIsolation  |-> "Multi-tenant isolation is missing",
   defenseInDepth        |-> "Defense-in-depth not implemented",
   followsHubSpoke       |-> "Doesn't follow hub-and-spoke pattern",
   adrCreated            |-> "ADR not created for architectural change",
   testsIncluded         |-> "Tests not included",
   documentationUpdated  |-> "Documentation not updated",
   performanceConsidered |-> "Performance not considered"]

\* variant: the message of testsIncluded is worded differently
MessageReworded ==
  [singleResponsibility  |-> "Module lacks single responsibility",
   composable            |-> "Module is not composable",
   textBasedConfig       |-> "Configuration is not text-based",
   explicitDependencies  |-> "Dependencies are not explicit",
   minimalOutput         |-> "Output is not minimal by default",
   explicitPermissions   |-> "Permissions are not explicit",
   inputValidation       |-> "Input validation is missing",
   parameterizedQueries  |-> "Queries are not parameterized",
   multiTenantIsolation  |-> "Multi-tenant isolation is missing",
   defenseInDepth        |-> "Defense-in-depth not implemented",
   followsHubSpoke       |-> "Doesn't follow hub-and-spoke pattern",
   adrCreated            |-> "ADR not created for architectural change",
   testsIncluded         |-> "Tests are missing",
   documentationUpdated  |-> "Documentation not updated",
   performanceConsidered |-> "Performance not considered"]

Message ==
  [singleResponsibility  |-> "Module lacks single responsibility",
   composable            |-> "Module is not composable",
   textBasedConfig       |-> "Configuration is not text-based",
   explicitDependencies  |-> "Dependencies are not explicit",
   minimalOutput         |-> "Output is not minimal by default",
   explicitPermissions   |-> "Permissions are not explicit",
   inputValidation       |-> "Input validation is missing",
   parameterizedQueries  |-> "Queries are not parameterized",
   multiTenantIsolation  |-> "Multi-tenant isolation is missing",
   defenseInDepth        |-> "Defense-in-depth not implemented",
   followsHubSpoke       |-> "Doesn't follow hub-and-spoke pattern",
   adrCreated            |-> "ADR not created for architectural change",
   testsIncluded         |-> "Tests not included",
   documentationUpdated  |-> "Documentation not updated",
   performanceConsidered |-> "Performance not considered"]

\* variant: the guard of the block is dropped
PresentAlways(checklist, cat) == TRUE

\* if (checklist.<cat>): an object is truthy, a missing property is not
Present(checklist, cat) == cat \in DOMAIN checklist

\* sub.<flag> where sub is undefined: the block is entered for a sub-record
\* that is not there, and reading its first flag raises a TypeError
ReadsUndefined(checklist, cat) == Present(checklist, cat) /\ cat \notin DOMAIN checklist

\* variant: sub.<flag> === false, an omitted flag passes
FalsyExplicit(sub, flag) == flag \in DOMAIN sub /\ ~sub[flag]

\* variant: the negation is dropped, if (sub.<flag>)
FalsyNoNegation(sub, flag) == flag \in DOMAIN sub /\ sub[flag]

\* !sub.<flag>: true for false and for a property that is not there
Falsy(sub, flag) == flag \notin DOMAIN sub \/ ~sub[flag]

\* variant: the if statements are chained with else, the first falsy flag ends the block
RECURSIVE PushFlagsElseIf(_, _, _, _)
PushFlagsElseIf(arr, sub, cat, i) ==
  IF i > Len(CheckedFlags[cat]) THEN arr
  ELSE IF Falsy(sub, CheckedFlags[cat][i])
         THEN Append(arr, Message[CheckedFlags[cat][i]])
         ELSE PushFlagsElseIf(arr, sub, cat, i + 1)

\* the five if statements of one category, pushing onto arr
RECURSIVE PushFlags(_, _, _, _)
PushFlags(arr, sub, cat, i) ==
  IF i > Len(CheckedFlags[cat]) THEN arr
  ELSE PushFlags(IF Falsy(sub, CheckedFlags[cat][i])
                   THEN Append(arr, Message[CheckedFlags[cat][i]])
                   ELSE arr,
                 sub, cat, i + 1)

\* variant: an absent sub-record is checked as a sub-record without flags
CheckCategoryAbsentFails(arr, checklist, cat) ==
  PushFlags(arr, IF Present(checklist, cat) THEN checklist[cat] ELSE [f \in {} |-> TRUE],
            cat, 1)

\* variant: a block is skipped once an earlier block has pushed a violation
CheckCategoryStopsAfterViolations(arr, checklist, cat) ==
  IF Present(checklist, cat) /\ Len(arr) = 0 THEN PushFlags(arr, checklist[cat], cat, 1)
  ELSE arr

\* one "if (checklist.<cat>) { ... }" block
CheckCategory(arr, checklist, cat) ==
  IF Present(checklist, cat) THEN PushFlags(arr, checklist[cat], cat, 1)
  ELSE arr

\* variant: one array at module level is handed out on every evaluation
NewArrayShared(heap) ==
  IF Len(heap) = 0 THEN [arrays |-> Append(heap, <<>>), ref |-> 1]
  ELSE [arrays |-> heap, ref |-> 1]

\* const violations: string[] = []  /  an array literal []
NewArray(heap) == [arrays |-> Append(heap, <<>>), ref |-> Len(heap) + 1]

\* variant: valid: violations.length >= 0
ValidationResultAlwaysValid(heap, ref) == [valid |-> Len(heap[ref]) >= 0, violations |-> ref]

\* { valid: violations.length === 0, violations }
ValidationResult(heap, ref) == [valid |-> Len(heap[ref]) = 0, violations |-> ref]

(***************************************************************************)
(* createADR: the fields of the object literals it returns.                *)
(***************************************************************************)
Consequences(positive, negative) == [positive |-> positive, negative |-> negative]

\* variant: id and title are stored in each other's field
ADRSwapped(id, title, alternatives, consequences, related) ==
  [id |-> title, title |-> id, status |-> "PROPOSED",
   context |-> "", decision |-> "", rationale |-> "",
   alternatives |-> alternatives, consequences |-> consequences,
   related |-> related]

\* variant: an empty id is replaced by a default id
ADRDefaultId(id, title, alternatives, consequences, related) ==
  [id |-> IF id = "" THEN "ADR-000" ELSE id, title |-> title, status |-> "PROPOSED",
   context |-> "", decision |-> "", rationale |-> "",
   alternatives |-> alternatives, consequences |-> consequences,
   related |-> related]

\* variant: the review date is stamped from a counter of the objects created so far
ADRStamped(id, title, alternatives, consequences, related) ==
  [id |-> id, title |-> title, status |-> "PROPOSED",
   context |-> "", decision |-> "", rationale |-> "",
   alternatives |-> alternatives, consequences |-> consequences,
   related |-> related, reviewDate |-> ToString(Len(objects))]

ADR(id, title, alternatives, consequences, related) ==
  [id |-> id, title |-> title, status |-> "PROPOSED",
   context |-> "", decision |-> "", rationale |-> "",
   alternatives |-> alternatives, consequences |-> consequences,
   related |-> related]

(***************************************************************************)
(* What a caller sees when it reads a returned object through its          *)
(* references.                                                             *)
(***************************************************************************)
DeepResult(hp, objs, ref) ==
  [valid |-> objs[ref].valid, violations |-> hp[objs[ref].violations]]

DeepConsequences(hp, objs, ref) ==
  [f \in DOMAIN objs[ref] |-> hp[objs[ref][f]]]

DeepADR(hp, objs, ref) ==
  [f \in DOMAIN objs[ref] |->
     IF f \in {"alternatives", "related"} THEN hp[objs[ref][f]]
     ELSE IF f = "consequences" THEN DeepConsequences(hp, objs, objs[ref][f])
     ELSE objs[ref][f]]

(***************************************************************************)
(* Inputs.                                                                 *)
(***************************************************************************)
\* the checklist with sub-records P, whose flags F are false and O omitted
MkChecklist(P, F, O) ==
  [cat \in P |-> [f \in FlagSet(cat) \ O |-> f \notin F]]

EmptyChecklist == MkChecklist({}, {}, {})

\* every checklist whose sub-records are each absent, all true, all false or
\* without any flag
UniformChecklists ==
  UNION {UNION {{MkChecklist(P, FlagsOf(PF), FlagsOf(PO)) : PO \in SUBSET (P \ PF)} :
                PF \in SUBSET P} :
         P \in SUBSET CategorySet}

\* the checklists the callers of Spec pass
SampleChecklists ==
  {EmptyChecklist,
   MkChecklist({"security"}, {"explicitPermissions"}, {}),
   MkChecklist(CategorySet, {"minimalOutput", "adrCreated"}, {"inputValidation"})}

Ids == {"", "ADR-042", "ADR-043"}

Titles == {"", "Use event sourcing"}

\* every pair of an id and a title
ADRInputs == [id : Ids, title : Titles]

\* the pairs the callers of Spec pass
SampleADRInputs ==
  {[id |-> "", title |-> ""], [id |-> "ADR-042", title |-> "Use event sourcing"]}

(***************************************************************************)
(* State.                                                                  *)
(***************************************************************************)
(***************************************************************************)
(* checkUnixCompliance: the object literal it returns, whatever the module *)
(* record is.                                                              *)
(***************************************************************************)
\* variant: a principle the module record states is copied into the result
UnixPrinciplesEchoed(module) ==
  [doOneThingWell   |-> IF "doOneThingWell" \in DOMAIN module
                          THEN module["doOneThingWell"] ELSE TRUE,
   composable       |-> TRUE,
   textBased        |-> TRUE,
   explicitNotMagic |-> TRUE,
   minimalOutput    |-> TRUE,
   securityFirst    |-> TRUE,
   leverageExisting |-> TRUE]

UnixPrinciples(module) ==
  [doOneThingWell   |-> TRUE,
   composable       |-> TRUE,
   textBased        |-> TRUE,
   explicitNotMagic |-> TRUE,
   minimalOutput    |-> TRUE,
   securityFirst    |-> TRUE,
   leverageExisting |-> TRUE]

\* module records a caller passes: Record<string, unknown>
Modules ==
  {[k \in {} |-> TRUE],
   [name |-> "auth"],
   [doOneThingWell |-> FALSE, composable |-> FALSE]}

(***************************************************************************)
(* The constants of the module: VERSION, and the FRAMEWORK object, whose   *)
(* author is an object of its own.                                         *)
(***************************************************************************)
VERSION == "1.0.0"

FrameworkAuthor ==
  [name     |-> "Pedro M. Dominguez",
   company  |-> "Dominguez Tech Solutions LLC",
   location |-> "Oklahoma City, OK",
   email    |-> "info@domingueztechsolutions.com"]

\* variant: the version is written out a second time and was not kept current
FRAMEWORKStaleVersion(author) ==
  [name          |-> "DenoGenesis Meta-Documentation",
   version       |-> "0.9.0",
   description   |-> "Meta-documentation framework for building enterprise-grade applications using Unix Philosophy + Deno + AI-Augmented Development",
   repository    |-> "https://github.com/dominguez-tech/deno-genesis-meta-docs",
   documentation |-> "https://jsr.io/@denogenesis/meta-docs",
   author        |-> author]

\* the FRAMEWORK object literal; author is the reference to the author object
FRAMEWORK(author) ==
  [name          |-> "DenoGenesis Meta-Documentation",
   version       |-> VERSION,
   description   |-> "Meta-documentation framework for building enterprise-grade applications using Unix Philosophy + Deno + AI-Augmented Development",
   repository    |-> "https://github.com/dominguez-tech/deno-genesis-meta-docs",
   documentation |-> "https://jsr.io/@denogenesis/meta-docs",
   author        |-> author]

\* the objects the evaluation of the module creates
ModuleObjects == <<FrameworkAuthor, FRAMEWORK(Len(<<FrameworkAuthor>>))>>

FrameworkRef == Len(ModuleObjects)

Idle == [pc |-> "idle", checklist |-> EmptyChecklist, violations |-> 0]

Init ==
  /\ arrays = <<>>
  /\ objects = ModuleObjects
  /\ frames = [c \in Callers |-> Idle]
  /\ log = <<>>

\* invocations started so far
Started == Len(log) + Cardinality({c \in Callers : frames[c].pc # "idle"})

(***************************************************************************)
(* validateCompliance, one step per block of the function body.            *)
(***************************************************************************)
\* entry: const violations = []
Enter(c, inputs) ==
  /\ frames[c].pc = "idle"
  /\ \E checklist \in inputs :
       LET a == NewArray(arrays) IN
         /\ arrays' = a.arrays
         /\ frames' = [frames EXCEPT ![c] =
              [pc |-> "unixPhilosophy", checklist |-> checklist, violations |-> a.ref]]
  /\ UNCHANGED <<objects, log>>

\* entry with any checklist that has at most MaxFalsy flags false or omitted
EnterBounded(c) ==
  \E P \in SUBSET CategorySet :
    \E Z \in SUBSET FlagsOf(P) :
      /\ Cardinality(Z) <= MaxFalsy
      /\ \E O \in SUBSET Z : Enter(c, {MkChecklist(P, Z \ O, O)})

\* variant: the architecture block stands before the security block
NextPcArchitectureFirst(cat) ==
  CASE cat = "unixPhilosophy" -> "architecture"
    [] cat = "architecture"   -> "security"
    [] cat = "security"       -> "return"

NextPc(cat) ==
  CASE cat = "unixPhilosophy" -> "security"
    [] cat = "security"       -> "architecture"
    [] cat = "architecture"   -> "return"

\* variant: the block normalises the sub-record, sub.<flag> = !!sub.<flag>
CheckNormalises(c, cat) ==
  /\ frames[c].pc = cat
  /\ IF ReadsUndefined(frames[c].checklist, cat)
       THEN /\ log' = Append(log,
                 [caller |-> c, op |-> "validateCompliance",
                  arg |-> frames[c].checklist, threw |-> TRUE])
            /\ frames' = [frames EXCEPT ![c] = Idle]
            /\ UNCHANGED <<arrays, objects>>
       ELSE /\ arrays' = [arrays EXCEPT ![frames[c].violations] =
                           CheckCategory(@, frames[c].checklist, cat)]
            /\ frames' = [frames EXCEPT
                 ![c].pc = NextPc(cat),
                 ![c].checklist =
                    [k \in DOMAIN @ |->
                       IF k = cat THEN [f \in FlagSet(cat) |-> ~Falsy(@[k], f)]
                       ELSE @[k]]]
            /\ UNCHANGED <<objects, log>>

Check(c, cat) ==
  /\ frames[c].pc = cat
  /\ IF ReadsUndefined(frames[c].checklist, cat)
       THEN \* the exception leaves the function
            /\ log' = Append(log,
                 [caller |-> c, op |-> "validateCompliance",
                  arg |-> frames[c].checklist, threw |-> TRUE])
            /\ frames' = [frames EXCEPT ![c] = Idle]
            /\ UNCHANGED <<arrays, objects>>
       ELSE /\ arrays' = [arrays EXCEPT ![frames[c].violations] =
                           CheckCategory(@, frames[c].checklist, cat)]
            /\ frames' = [frames EXCEPT ![c].pc = NextPc(cat)]
            /\ UNCHANGED <<objects, log>>

CheckUnixPhilosophy(c) == Check(c, "unixPhilosophy")

CheckSecurity(c) == Check(c, "security")

CheckArchitecture(c) == Check(c, "architecture")

Return(c) ==
  /\ frames[c].pc = "return"
  /\ objects' = Append(objects, ValidationResult(arrays, frames[c].violations))
  /\ log' = Append(log,
       [caller |-> c, op |-> "validateCompliance", arg |-> frames[c].checklist,
        threw |-> FALSE, ret |-> Len(objects) + 1,
        value |-> DeepResult(arrays, objects', Len(objects) + 1)])
  /\ frames' = [frames EXCEPT ![c] = Idle]
  /\ UNCHANGED arrays

(***************************************************************************)
(* createADR: a single return statement.                                   *)
(***************************************************************************)
\* variant: creating an ADR marks the earlier ADRs with the same id as superseded
CreateADRHeapSupersedes(hp, objs, id, title) ==
  LET alt == NewArray(hp)
      pos == NewArray(alt.arrays)
      neg == NewArray(pos.arrays)
      rel == NewArray(neg.arrays)
      old == [k \in 1..Len(objs) |->
                IF "status" \in DOMAIN objs[k] /\ objs[k].id = id
                  THEN [objs[k] EXCEPT !.status = "SUPERSEDED"]
                  ELSE objs[k]]
  IN [arrays |-> rel.arrays,
      objects |-> old \o <<Consequences(pos.ref, neg.ref),
                            ADR(id, title, alt.ref, Len(objs) + 1, rel.ref)>>,
      ret |-> Len(objs) + 2]

\* variant: the empty arrays are module-level defaults, allocated for the first
\* ADR and used again for every later one
CreateADRHeapSharedDefaults(hp, objs, id, title) ==
  LET made == {k \in 1..Len(objs) : "status" \in DOMAIN objs[k]}
      first == CHOOSE k \in made : \A m \in made : k <= m
      alt == NewArray(hp)
      pos == NewArray(alt.arrays)
      neg == NewArray(pos.arrays)
      rel == NewArray(neg.arrays)
  IN IF made = {}
       THEN [arrays |-> rel.arrays,
             objects |-> objs \o <<Consequences(pos.ref, neg.ref),
                                    ADR(id, title, alt.ref, Len(objs) + 1, rel.ref)>>,
             ret |-> Len(objs) + 2]
       ELSE [arrays |-> hp,
             objects |-> objs \o
               <<Consequences(objs[objs[first].consequences].positive,
                              objs[objs[first].consequences].negative),
                 ADR(id, title, objs[first].alternatives, Len(objs) + 1,
                     objs[first].related)>>,
             ret |-> Len(objs) + 2]

\* the arrays and objects the return statement of createADR allocates
CreateADRHeap(hp, objs, id, title) ==
  LET alt == NewArray(hp)
      pos == NewArray(alt.arrays)
      neg == NewArray(pos.arrays)
      rel == NewArray(neg.arrays)
  IN [arrays |-> rel.arrays,
      objects |-> objs \o <<Consequences(pos.ref, neg.ref),
                             ADR(id, title, alt.ref, Len(objs) + 1, rel.ref)>>,
      ret |-> Len(objs) + 2]

CreateADR(c, inputs) ==
  /\ frames[c].pc = "idle"
  /\ \E in \in inputs :
       LET r == CreateADRHeap(arrays, objects, in.id, in.title) IN
         /\ arrays' = r.arrays
         /\ objects' = r.objects
         /\ log' = Append(log,
              [caller |-> c, op |-> "createADR", arg |-> in,
               threw |-> FALSE, ret |-> r.ret,
               value |-> DeepADR(r.arrays, r.objects, r.ret)])
  /\ UNCHANGED frames

\* checkUnixCompliance(module) on a module record the caller holds
CheckUnixCompliance(c, modules) ==
  /\ frames[c].pc = "idle"
  /\ \E module \in modules :
       /\ objects' = objects \o <<module, UnixPrinciples(module)>>
       /\ log' = Append(log,
            [caller |-> c, op |-> "checkUnixCompliance", arg |-> module,
             argRef |-> Len(objects) + 1, threw |-> FALSE,
             ret |-> Len(objects) + 2, value |-> UnixPrinciples(module)])
  /\ UNCHANGED <<arrays, frames>>

(***************************************************************************)
(* The public interface: the names mod.ts exports, and the names the quick *)
(* start of the README imports from the package.                           *)
(***************************************************************************)
Exports ==
  {"VERSION", "UnixPrinciples", "ADR", "ComplianceChecklist", "checkUnixCompliance",
   "validateCompliance", "createADR", "FRAMEWORK"}

ReadmeImports == {"validateArchitecture", "checkUnixCompliance", "reviewSecurityLayers"}

\* import { name } from the package: a name that is not exported fails to link
Import(c, names) ==
  /\ frames[c].pc = "idle"
  /\ \E name \in names :
       log' = Append(log, [caller |-> c, op |-> "import", arg |-> name,
                           threw |-> name \notin Exports])
  /\ UNCHANGED <<arrays, objects, frames>>

(***************************************************************************)
(* The caller's own writes to what the functions returned: the fields of   *)
(* an ADR and the arrays of an ADR or of a validation result are plain     *)
(* writable properties.                                                    *)
(***************************************************************************)
\* status: "PROPOSED" | "ACCEPTED" | "DEPRECATED" | "SUPERSEDED"
Statuses == {"PROPOSED", "ACCEPTED", "DEPRECATED", "SUPERSEDED"}

\* context, decision, rationale: string
TextFields == {"context", "decision", "rationale"}

\* what the caller writes into a text field, and appends to an array
Texts == {"We need tenant isolation"}

\* the objects handed to the caller as ADRs
ReturnedADRs == {log[i].ret : i \in {k \in 1..Len(log) : log[k].op = "createADR"}}

\* the arrays the caller reaches through the objects handed to it
ReturnedArrays ==
  UNION {IF log[i].op = "validateCompliance" /\ ~log[i].threw
           THEN {objects[log[i].ret].violations}
         ELSE IF log[i].op = "createADR"
           THEN {objects[log[i].ret].alternatives, objects[log[i].ret].related,
                 objects[objects[log[i].ret].consequences].positive,
                 objects[objects[log[i].ret].consequences].negative}
         ELSE {} : i \in 1..Len(log)}

\* adr.<field> = value
Overwrite(c, field, values) ==
  /\ frames[c].pc = "idle"
  /\ \E ref \in ReturnedADRs, value \in values :
       /\ objects' = [objects EXCEPT ![ref][field] = value]
       /\ log' = Append(log,
            [caller |-> c, op |-> "overwrite",
             arg |-> [target |-> ref, field |-> field, value |-> value],
             threw |-> FALSE])
  /\ UNCHANGED <<arrays, frames>>

SetStatus(c) == Overwrite(c, "status", Statuses)

SetText(c) == \E field \in TextFields : Overwrite(c, field, Texts)

\* array.push(value)
Push(c) ==
  /\ frames[c].pc = "idle"
  /\ \E ref \in ReturnedArrays, value \in Texts :
       /\ arrays' = [arrays EXCEPT ![ref] = Append(@, value)]
       /\ log' = Append(log,
            [caller |-> c, op |-> "push",
             arg |-> [target |-> ref, value |-> value], threw |-> FALSE])
  /\ UNCHANGED <<objects, frames>>

\* array.length = 0
Clear(c) ==
  /\ frames[c].pc = "idle"
  /\ \E ref \in ReturnedArrays :
       /\ Len(arrays[ref]) > 0
       /\ arrays' = [arrays EXCEPT ![ref] = <<>>]
       /\ log' = Append(log,
            [caller |-> c, op |-> "clear", arg |-> [target |-> ref], threw |-> FALSE])
  /\ UNCHANGED <<objects, frames>>

(***************************************************************************)
(* Spec: NumCallers callers, MaxCalls invocations, interleaved.            *)
(***************************************************************************)
Next ==
  \E c \in Callers :
    \/ Started < MaxCalls /\ Enter(c, SampleChecklists)
    \/ CheckUnixPhilosophy(c)
    \/ CheckSecurity(c)
    \/ CheckArchitecture(c)
    \/ Return(c)
    \/ Started < MaxCalls /\ CreateADR(c, SampleADRInputs)

Spec == Init /\ [][Next]_vars

(***************************************************************************)
(* SpecOne: one invocation, by caller 1, on every checklist with at most   *)
(* MaxFalsy flags false or omitted, on every uniform checklist and on      *)
(* every pair of an id and a title.                                        *)
(***************************************************************************)
NextOne ==
  \/ Started = 0 /\ EnterBounded(1)
  \/ Started = 0 /\ Enter(1, UniformChecklists)
  \/ CheckUnixPhilosophy(1)
  \/ CheckSecurity(1)
  \/ CheckArchitecture(1)
  \/ Return(1)
  \/ Started = 0 /\ CreateADR(1, ADRInputs)
  \/ Started = 0 /\ Import(1, Exports \cup ReadmeImports)

SpecOne == Init /\ [][NextOne]_vars

(***************************************************************************)
(* SpecCaller: one caller that invokes the functions and writes to what    *)
(* they returned, MaxCalls operations in all.                              *)
(***************************************************************************)
NextCaller ==
  \/ Started < MaxCalls /\ Enter(1, SampleChecklists)
  \/ CheckUnixPhilosophy(1)
  \/ CheckSecurity(1)
  \/ CheckArchitecture(1)
  \/ Return(1)
  \/ Started < MaxCalls /\ CreateADR(1, SampleADRInputs)
  \/ Started < MaxCalls /\ CheckUnixCompliance(1, Modules)
  \/ Started < MaxCalls /\ SetStatus(1)
  \/ Started < MaxCalls /\ SetText(1)
  \/ Started < MaxCalls /\ Push(1)
  \/ Started < MaxCalls /\ Clear(1)

SpecCaller == Init /\ [][NextCaller]_vars

(***************************************************************************)
(* Properties.                                                             *)
(***************************************************************************)
ValidateCalls == {i \in 1..Len(log) : log[i].op = "validateCompliance"}

CreateCalls == {i \in 1..Len(log) : log[i].op = "createADR"}

\* the flags of present sub-records that are explicitly false
FalseFlags(checklist) ==
  {f \in FlagsOf(DOMAIN checklist) :
     \E cat \in DOMAIN checklist : f \in DOMAIN checklist[cat] /\ checklist[cat][f] = FALSE}

\* the flags of present sub-records that are omitted
OmittedFlags(checklist) ==
  {f \in FlagsOf(DOMAIN checklist) :
     \E cat \in DOMAIN checklist : f \in FlagSet(cat) /\ f \notin DOMAIN checklist[cat]}

\* the flags of absent sub-records
AbsentFlags(checklist) == FlagsOf(CategorySet \ DOMAIN checklist)

Occurrences(msg, seq) == Cardinality({k \in 1..Len(seq) : seq[k] = msg})

\* C1: in every result of validateCompliance, valid is true exactly when
\* the violations sequence is empty.
C1_ValidIffNoViolations ==
  \A i \in ValidateCalls :
    log[i].value.valid <=> (Len(log[i].value.violations) = 0)

C1_Witness ==
  \E i \in ValidateCalls :
    /\ Len(log[i].value.violations) = 2
    /\ log[i].value.valid = FALSE
    /\ DOMAIN log[i].arg = {"security", "architecture"}

\* C2 as stated: a message is reported only for a flag that is explicitly
\* false; a flag that is not supplied (sub-record absent, or flag omitted
\* from a present sub-record) contributes no message.
C2_OnlyExplicitFalseReported ==
  \A i \in ValidateCalls :
    \A f \in FlagsOf(CategorySet) :
      Occurrences(Message[f], log[i].value.violations) > 0
        => f \in FalseFlags(log[i].arg)

\* C2 as amended: a flag of an absent sub-record and a flag set to true
\* contribute no message; a flag of a present sub-record contributes its
\* message when it is explicitly false and also when it is omitted.
C2_AbsentNeverOmittedReported ==
  \A i \in ValidateCalls :
    \A f \in FlagsOf(CategorySet) :
      Occurrences(Message[f], log[i].value.violations) > 0
        <=> f \in FalseFlags(log[i].arg) \cup OmittedFlags(log[i].arg)

C2_Witness ==
  \E i \in ValidateCalls :
    /\ DOMAIN log[i].arg = {"unixPhilosophy"}
    /\ OmittedFlags(log[i].arg) = {"composable"}
    /\ FalseFlags(log[i].arg) = {"minimalOutput"}
    /\ Len(log[i].value.violations) = 2

\* C3: when at least one flag of a present sub-record is false, valid is
\* false and the message of each false flag occurs exactly once.
C3_FalseFlagReportedOnce ==
  \A i \in ValidateCalls :
    FalseFlags(log[i].arg) # {} =>
      /\ log[i].value.valid = FALSE
      /\ \A f \in FalseFlags(log[i].arg) :
           Occurrences(Message[f], log[i].value.violations) = 1

C3_Witness ==
  \E i \in ValidateCalls :
    /\ FalseFlags(log[i].arg) = {"composable", "minimalOutput", "defenseInDepth"}
    /\ log[i].value.valid = FALSE

\* C4: when every present sub-record has all five flags true, valid is true
\* and violations is empty, whichever sub-records are present.
C4_AllTrueIsValid ==
  \A i \in ValidateCalls :
    (\A cat \in DOMAIN log[i].arg :
       \A f \in FlagSet(cat) : f \in DOMAIN log[i].arg[cat] /\ log[i].arg[cat][f])
    => /\ log[i].value.valid = TRUE
       /\ log[i].value.violations = <<>>

C4_Witness ==
  \E i \in ValidateCalls :
    /\ DOMAIN log[i].arg = {"unixPhilosophy", "architecture"}
    /\ \A cat \in DOMAIN log[i].arg :
         \A f \in FlagSet(cat) : f \in DOMAIN log[i].arg[cat] /\ log[i].arg[cat][f]
    /\ log[i].value.valid = TRUE

\* the flags in the order the ComplianceChecklist interface declares them
DeclaredOrder ==
  DeclaredFlags[Categories[1]] \o DeclaredFlags[Categories[2]] \o DeclaredFlags[Categories[3]]

DeclaredIndex(msg) ==
  CHOOSE k \in 1..Len(DeclaredOrder) : Message[DeclaredOrder[k]] = msg

\* C5: the messages of every result are in category order (Unix philosophy,
\* security, architecture) and, within a category, in the order the
\* interface declares the flags.
C5_DeclaredOrder ==
  \A i \in ValidateCalls :
    LET v == log[i].value.violations IN
      \A j, k \in 1..Len(v) : j < k => DeclaredIndex(v[j]) < DeclaredIndex(v[k])

C5_Witness ==
  \E i \in ValidateCalls :
    log[i].value.violations =
      <<Message["composable"], Message["explicitPermissions"], Message["followsHubSpoke"]>>

\* C6: the empty checklist yields valid = true and no violations.
C6_EmptyChecklist ==
  \A i \in ValidateCalls :
    DOMAIN log[i].arg = {} =>
      log[i].value = [valid |-> TRUE, violations |-> <<>>]

C6_Witness ==
  \E i \in ValidateCalls : DOMAIN log[i].arg = {} /\ log[i].value.valid

\* C7: createADR(id, title) returns a record with the given id and title,
\* status PROPOSED, empty context, decision and rationale, empty
\* alternatives, consequences.positive, consequences.negative and related,
\* and neither reviewDate nor consequences.mitigation set.
C7_BlankADR ==
  \A i \in CreateCalls :
    /\ log[i].value =
         [id |-> log[i].arg.id, title |-> log[i].arg.title, status |-> "PROPOSED",
          context |-> "", decision |-> "", rationale |-> "",
          alternatives |-> <<>>,
          consequences |-> [positive |-> <<>>, negative |-> <<>>],
          related |-> <<>>]
    /\ "reviewDate" \notin DOMAIN log[i].value
    /\ "mitigation" \notin DOMAIN log[i].value.consequences

C7_Witness ==
  \E i \in CreateCalls :
    /\ log[i].arg = [id |-> "ADR-042", title |-> "Use event sourcing"]
    /\ log[i].value.id = "ADR-042"
    /\ log[i].value.title = "Use event sourcing"

\* the array a returned ValidationResult refers to
ViolationsRef(i) == objects[log[i].ret].violations

\* C8: two calls of validateCompliance with equal checklists return equal
\* valid values and equal violations sequences, whatever other calls were
\* made before or between them.
C8_ValidateDeterministic ==
  \A i, j \in ValidateCalls :
    log[i].arg = log[j].arg =>
      /\ log[i].value.valid = log[j].value.valid
      /\ log[i].value.violations = log[j].value.violations

C8_Witness ==
  /\ Len(log) = 3
  /\ log[1].op = "validateCompliance" /\ log[3].op = "validateCompliance"
  /\ log[1].arg = log[3].arg
  /\ Len(log[1].value.violations) = 3
  /\ log[2].op = "validateCompliance" /\ log[2].arg # log[1].arg
  /\ Len(log[2].value.violations) = 1

\* C9: two calls of createADR with identical arguments return deep-equal
\* records, whatever calls were made before them.
C9_CreateADRDeterministic ==
  \A i, j \in CreateCalls :
    log[i].arg = log[j].arg => log[i].value = log[j].value

C9_Witness ==
  /\ Len(log) = 3
  /\ log[1].op = "createADR" /\ log[3].op = "createADR"
  /\ log[1].arg = log[3].arg
  /\ log[1].arg.id = "ADR-042"
  /\ log[2].op = "validateCompliance" /\ ~log[2].value.valid

\* the result of validateCompliance(checklist) when no other invocation runs
ValidateAlone(checklist) ==
  LET a  == NewArray(<<>>)
      h1 == [a.arrays EXCEPT ![a.ref] = CheckCategory(@, checklist, "unixPhilosophy")]
      h2 == [h1 EXCEPT ![a.ref] = CheckCategory(@, checklist, "security")]
      h3 == [h2 EXCEPT ![a.ref] = CheckCategory(@, checklist, "architecture")]
  IN DeepResult(h3, <<ValidationResult(h3, a.ref)>>, 1)

\* the result of createADR(id, title) when no other invocation runs
CreateADRAlone(in) ==
  LET r == CreateADRHeap(<<>>, <<>>, in.id, in.title) IN
    DeepADR(r.arrays, r.objects, r.ret)

\* C10: under every interleaving of the invocations of the callers, each
\* invocation returns what the same invocation returns when it runs alone.
C10_InterleavingInvisible ==
  \A i \in 1..Len(log) :
    log[i].value = IF log[i].op = "validateCompliance"
                     THEN ValidateAlone(log[i].arg)
                     ELSE CreateADRAlone(log[i].arg)

\* an invocation of validateCompliance that began before and returned after
\* another caller's invocation, both reporting violations
C10_Witness ==
  \E i, j \in ValidateCalls :
    /\ i < j
    /\ ViolationsRef(j) < ViolationsRef(i)
    /\ log[i].caller # log[j].caller
    /\ Len(log[i].value.violations) = 1
    /\ Len(log[j].value.violations) = 3
    /\ \E k \in CreateCalls : k < j

\* a step of the invocation of caller c that is under way
Step(c) ==
  CheckUnixPhilosophy(c) \/ CheckSecurity(c) \/ CheckArchitecture(c) \/ Return(c)

\* C11: validateCompliance and createADR are total: every invocation on a
\* partial checklist (sub-records absent, or present with only some flags)
\* or on a pair of strings can always proceed, and completes with a result
\* value, never with an exception.
C11_Total ==
  /\ \A i \in ValidateCalls \cup CreateCalls : ~log[i].threw
  /\ \A c \in Callers : frames[c].pc # "idle" => ENABLED Step(c)
  /\ Len(log) = 0 /\ frames[1].pc = "idle" =>
       /\ ENABLED EnterBounded(1)
       /\ \A checklist \in UniformChecklists \cup SampleChecklists :
            ENABLED Enter(1, {checklist})
       /\ \A in \in ADRInputs : ENABLED CreateADR(1, {in})

C11_Witness ==
  \E i \in ValidateCalls :
    /\ ~log[i].threw
    /\ DOMAIN log[i].arg = {"unixPhilosophy", "security"}
    /\ OmittedFlags(log[i].arg) = {"composable", "textBasedConfig", "defenseInDepth"}
    /\ Len(log[i].value.violations) = 3

\* the status the caller wrote last into the ADR at ref, PROPOSED if none
LastStatusWritten(ref) ==
  LET W == {k \in 1..Len(log) :
              /\ log[k].op = "overwrite"
              /\ log[k].arg.target = ref
              /\ log[k].arg.field = "status"}
  IN IF W = {} THEN "PROPOSED"
     ELSE log[CHOOSE k \in W : \A m \in W : m <= k].arg.value

\* C12: the status of an ADR is always one of PROPOSED, ACCEPTED,
\* DEPRECATED, SUPERSEDED; a freshly created ADR is PROPOSED; no operation
\* of the module changes the status of an existing ADR: it is the value the
\* caller wrote last, or PROPOSED if the caller wrote none.
C12_StatusOnlyByCaller ==
  \A i \in CreateCalls :
    /\ log[i].value.status = "PROPOSED"
    /\ objects[log[i].ret].status \in Statuses
    /\ objects[log[i].ret].status = LastStatusWritten(log[i].ret)

C12_Witness ==
  /\ Len(log) = 3
  /\ log[1].op = "createADR" /\ log[3].op = "createADR"
  /\ log[1].arg = log[3].arg
  /\ log[2].op = "overwrite" /\ log[2].arg.target = log[1].ret
  /\ objects[log[1].ret].status = "ACCEPTED"
  /\ objects[log[3].ret].status = "PROPOSED"

\* C13: createADR performs no validation: every pair of strings, an empty
\* id and an empty title included, is accepted, and the record returned
\* carries exactly those strings as id and title.
C13_NoValidation ==
  /\ Len(log) = 0 /\ frames[1].pc = "idle" =>
       \A in \in ADRInputs : ENABLED CreateADR(1, {in})
  /\ \A i \in CreateCalls :
       /\ ~log[i].threw
       /\ objects[log[i].ret].id = log[i].arg.id
       /\ objects[log[i].ret].title = log[i].arg.title

C13_Witness ==
  \E i \in CreateCalls :
    /\ log[i].arg = [id |-> "", title |-> ""]
    /\ ~log[i].threw
    /\ objects[log[i].ret].id = ""
    /\ objects[log[i].ret].title = ""

\* C14: validateCompliance does not write to its argument: from entry to
\* return the checklist of an invocation keeps its sub-records, their flags
\* and their values, and it is that same checklist the caller holds after
\* the call.
C14_ArgumentUnchanged ==
  [][\A c \in Callers :
       frames[c].pc # "idle" =>
         IF frames'[c].pc # "idle"
           THEN frames'[c].checklist = frames[c].checklist
           ELSE log'[Len(log')].arg = frames[c].checklist]_vars

C14_Witness ==
  \E i \in ValidateCalls :
    /\ ~log[i].threw
    /\ log[i].arg = MkChecklist({"unixPhilosophy", "architecture"},
                                {"adrCreated"}, {"composable"})
    /\ Len(log[i].value.violations) = 2

\* C15 as stated: the checklist with only security present,
\* explicitPermissions false and the other four flags true yields valid =
\* false and the single violation "Permissions are not explicit"; every
\* checklist with exactly one false flag among its present sub-records
\* yields exactly one violation, that flag's message.
C15_OneFalseFlagOneViolation ==
  \A i \in ValidateCalls :
    /\ log[i].arg = MkChecklist({"security"}, {"explicitPermissions"}, {}) =>
         log[i].value = [valid |-> FALSE, violations |-> <<"Permissions are not explicit">>]
    /\ \A f \in FlagsOf(CategorySet) :
         FalseFlags(log[i].arg) = {f} =>
           log[i].value = [valid |-> FALSE, violations |-> <<Message[f]>>]

\* C15 as amended: the same, for every checklist with exactly one false flag
\* and every other flag of its present sub-records set to true; a flag that
\* a present sub-record omits adds a violation of its own.
C15_OneFalseOthersTrue ==
  \A i \in ValidateCalls :
    /\ log[i].arg = MkChecklist({"security"}, {"explicitPermissions"}, {}) =>
         log[i].value = [valid |-> FALSE, violations |-> <<"Permissions are not explicit">>]
    /\ \A f \in FlagsOf(CategorySet) :
         FalseFlags(log[i].arg) = {f} =>
           /\ OmittedFlags(log[i].arg) = {} =>
                log[i].value = [valid |-> FALSE, violations |-> <<Message[f]>>]
           /\ Len(log[i].value.violations) = 1 + Cardinality(OmittedFlags(log[i].arg))

C15_Witness ==
  \E i \in ValidateCalls :
    /\ DOMAIN log[i].arg = {"security"}
    /\ DOMAIN log[i].arg["security"] = FlagSet("security")
    /\ FalseFlags(log[i].arg) = {"explicitPermissions"}
    /\ log[i].value.violations = <<"Permissions are not explicit">>

\* C16: the module exports validateArchitecture, checkUnixCompliance and
\* reviewSecurityLayers, the three names the quick start of the README
\* imports: importing any of them succeeds.
C16_ReadmeImportsExported ==
  \A i \in 1..Len(log) :
    log[i].op = "import" /\ log[i].arg \in ReadmeImports => ~log[i].threw

\* the caller pushed onto or cleared the array at ref
Written(ref) ==
  \E k \in 1..Len(log) : log[k].op \in {"push", "clear"} /\ log[k].arg.target = ref

\* C17: every ValidationResult is fresh: no two calls return the same
\* violations array, so appending to or clearing the violations of one
\* result leaves every other result, earlier or later, as it was returned,
\* and every later call returns what it returns without those writes.
C17_FreshResult ==
  /\ \A i, j \in ValidateCalls :
       i # j => /\ ViolationsRef(i) # ViolationsRef(j)
                /\ log[i].ret # log[j].ret
  /\ \A i \in ValidateCalls :
       /\ ~Written(ViolationsRef(i)) =>
            DeepResult(arrays, objects, log[i].ret) = log[i].value
       /\ log[i].value = ValidateAlone(log[i].arg)

C17_Witness ==
  /\ Len(log) = 3
  /\ log[1].op = "validateCompliance" /\ log[3].op = "validateCompliance"
  /\ log[1].arg = log[3].arg
  /\ Len(log[1].value.violations) = 3
  /\ log[2].op = "clear" /\ log[2].arg.target = ViolationsRef(1)
  /\ arrays[ViolationsRef(1)] = <<>>
  /\ Len(arrays[ViolationsRef(3)]) = 3

\* the arrays of the ADR returned by call i
ADRArrays(i) ==
  {objects[log[i].ret].alternatives, objects[log[i].ret].related,
   objects[objects[log[i].ret].consequences].positive,
   objects[objects[log[i].ret].consequences].negative}

\* the caller wrote to a field or an array of the ADR returned by call i
Touched(i) ==
  \E k \in 1..Len(log) :
    \/ log[k].op = "overwrite" /\ log[k].arg.target = log[i].ret
    \/ log[k].op \in {"push", "clear"} /\ log[k].arg.target \in ADRArrays(i)

\* C18: the records createADR returns share no mutable part: two records
\* have different objects and different arrays, so appending to the arrays
\* of one record or overwriting its status or text fields leaves every other
\* record as it was returned, and every later createADR returns a blank
\* record.
C18_NoSharedParts ==
  /\ \A i, j \in CreateCalls :
       i # j => /\ log[i].ret # log[j].ret
                /\ objects[log[i].ret].consequences # objects[log[j].ret].consequences
                /\ ADRArrays(i) \cap ADRArrays(j) = {}
  /\ \A i \in CreateCalls :
       /\ Cardinality(ADRArrays(i)) = 4
       /\ ~Touched(i) => DeepADR(arrays, objects, log[i].ret) = log[i].value
       /\ log[i].value = CreateADRAlone(log[i].arg)

C18_Witness ==
  /\ Len(log) = 3
  /\ log[1].op = "createADR" /\ log[3].op = "createADR"
  /\ log[2].op = "push" /\ log[2].arg.target = objects[log[1].ret].alternatives
  /\ Len(arrays[objects[log[1].ret].alternatives]) = 1
  /\ arrays[objects[log[3].ret].alternatives] = <<>>
  /\ ~Touched(3)

\* C19: the length of violations is the number of flags of present
\* sub-records that are false or omitted; it lies between 0 and 15 and is
\* at most 5 times the number of present sub-records.
C19_LengthCountsFalsyFlags ==
  \A i \in ValidateCalls :
    LET n == Len(log[i].value.violations) IN
      /\ n = Cardinality(FalseFlags(log[i].arg) \cup OmittedFlags(log[i].arg))
      /\ n >= 0 /\ n <= 15
      /\ n <= 5 * Cardinality(DOMAIN log[i].arg)

C19_Witness ==
  \E i \in ValidateCalls :
    /\ DOMAIN log[i].arg = CategorySet
    /\ FalseFlags(log[i].arg) = FlagsOf({"unixPhilosophy", "architecture"})
    /\ OmittedFlags(log[i].arg) = FlagSet("security")
    /\ Len(log[i].value.violations) = 15

\* the flags whose message occurs in a violations sequence
Decode(v) == {f \in FlagsOf(CategorySet) : \E k \in 1..Len(v) : v[k] = Message[f]}

\* C20: the 15 messages are pairwise distinct, so each belongs to one flag;
\* no result contains a message twice, and the flags of present sub-records
\* that are false or omitted are exactly those whose message the result
\* contains.
C20_MessagesIdentifyFlags ==
  /\ Cardinality({Message[f] : f \in FlagsOf(CategorySet)}) = 15
  /\ \A i \in ValidateCalls :
       LET v == log[i].value.violations IN
         /\ \A j, k \in 1..Len(v) : j # k => v[j] # v[k]
         /\ Decode(v) = FalseFlags(log[i].arg) \cup OmittedFlags(log[i].arg)

C20_Witness ==
  \E i \in ValidateCalls :
    /\ Cardinality(Range(log[i].value.violations)) = 15
    /\ Decode(log[i].value.violations) = FlagsOf(CategorySet)
    /\ OmittedFlags(log[i].arg) = {}

\* the checklist that keeps only the sub-record of one category
Only(checklist, cat) == [c \in DOMAIN checklist \cap {cat} |-> checklist[c]]

\* C21: the violations of every result are the concatenation, in the order
\* unixPhilosophy, security, architecture, of the violations returned for
\* the three checklists that each keep one sub-record of the argument; an
\* absent sub-record contributes nothing.
C21_ConcatenationOfCategories ==
  \A i \in ValidateCalls :
    /\ log[i].value.violations =
           ValidateAlone(Only(log[i].arg, "unixPhilosophy")).violations
        \o ValidateAlone(Only(log[i].arg, "security")).violations
        \o ValidateAlone(Only(log[i].arg, "architecture")).violations
    /\ \A cat \in CategorySet \ DOMAIN log[i].arg :
         ValidateAlone(Only(log[i].arg, cat)).violations = <<>>

C21_Witness ==
  \E i \in ValidateCalls :
    /\ DOMAIN log[i].arg = CategorySet
    /\ \A cat \in CategorySet :
         Len(ValidateAlone(Only(log[i].arg, cat)).violations) = 1
    /\ Len(log[i].value.violations) = 3

\* the checklist with one flag of a present sub-record negated
Flip(checklist, cat, f) == [checklist EXCEPT ![cat][f] = ~@]

Without(v, msg) == SelectSeq(v, LAMBDA m : m # msg)

\* C22: setting one false flag of a present sub-record to true removes that
\* flag's message and nothing else, the other messages keeping their order;
\* setting one true flag to false inserts that flag's message, once, at the
\* place the declaration order gives it, and changes nothing else.
C22_OneFlagOneMessage ==
  \A i \in ValidateCalls :
    \A cat \in DOMAIN log[i].arg :
      \A f \in DOMAIN log[i].arg[cat] :
        LET v   == log[i].value.violations
            w   == ValidateAlone(Flip(log[i].arg, cat, f)).violations
            msg == Message[f]
        IN IF log[i].arg[cat][f]
             THEN /\ Occurrences(msg, v) = 0
                  /\ Occurrences(msg, w) = 1
                  /\ Without(w, msg) = v
                  /\ \A j, k \in 1..Len(w) :
                       j < k => DeclaredIndex(w[j]) < DeclaredIndex(w[k])
             ELSE /\ Occurrences(msg, v) = 1
                  /\ w = Without(v, msg)

C22_Witness ==
  \E i \in ValidateCalls :
    /\ DOMAIN log[i].arg = CategorySet
    /\ FalseFlags(log[i].arg) = {"composable", "minimalOutput", "adrCreated"}
    /\ OmittedFlags(log[i].arg) = {}
    /\ ValidateAlone(Flip(log[i].arg, "unixPhilosophy", "composable")).violations =
         <<Message["minimalOutput"], Message["adrCreated"]>>
    /\ ValidateAlone(Flip(log[i].arg, "security", "inputValidation")).violations =
         <<Message["composable"], Message["minimalOutput"],
           Message["inputValidation"], Message["adrCreated"]>>

UnixCalls == {i \in 1..Len(log) : log[i].op = "checkUnixCompliance"}

\* C23: checkUnixCompliance returns, for every module record, the same
\* result: the seven principles doOneThingWell, composable, textBased,
\* explicitNotMagic, minimalOutput, securityFirst and leverageExisting, all
\* true; and the module record it was given stays as it was.
C23_ArgumentIgnored ==
  /\ \A i \in UnixCalls :
       /\ ~log[i].threw
       /\ DOMAIN log[i].value =
            {"doOneThingWell", "composable", "textBased", "explicitNotMagic",
             "minimalOutput", "securityFirst", "leverageExisting"}
       /\ \A p \in DOMAIN log[i].value : log[i].value[p] = TRUE
       /\ objects[log[i].ret] = log[i].value
       /\ objects[log[i].argRef] = log[i].arg
  /\ \A i, j \in UnixCalls : log[i].value = log[j].value

C23_Witness ==
  \E i, j \in UnixCalls :
    /\ i < j
    /\ log[i].arg = [doOneThingWell |-> FALSE, composable |-> FALSE]
    /\ log[j].arg = [name |-> "auth"]
    /\ objects[log[i].argRef] = log[i].arg
    /\ log[i].value = log[j].value

\* C25: in every state FRAMEWORK.version is VERSION, which is "1.0.0", and
\* the FRAMEWORK object and its author object have the fields the module
\* gave them when it was evaluated, whatever operations have run since.
C25_FrameworkConstant ==
  /\ VERSION = "1.0.0"
  /\ objects[FrameworkRef].version = VERSION
  /\ objects[FrameworkRef] = ModuleObjects[FrameworkRef]
  /\ objects[objects[FrameworkRef].author] = FrameworkAuthor

C25_Witness ==
  /\ Len(log) = MaxCalls
  /\ \E i \in ValidateCalls : ~log[i].value.valid
  /\ CreateCalls # {}
  /\ UnixCalls # {}
  /\ objects[FrameworkRef].version = "1.0.0"

\* the fifteen messages, as the claim lists them
MessageList ==
  <<"Module lacks single responsibility", "Module is not composable",
    "Configuration is not text-based", "Dependencies are not explicit",
    "Output is not minimal by default", "Permissions are not explicit",
    "Input validation is missing", "Queries are not parameterized",
    "Multi-tenant isolation is missing", "Defense-in-depth not implemented",
    "Doesn't follow hub-and-spoke pattern", "ADR not created for architectural change",
    "Tests not included", "Documentation not updated", "Performance not considered">>

\* the subsequence of MessageList at the places of the flags in F, the
\* flags counted in declaration order
Selected(F) ==
  LET idx == SelectSeq([k \in 1..Len(DeclaredOrder) |-> k],
                       LAMBDA k : DeclaredOrder[k] \in F)
  IN [k \in 1..Len(idx) |-> MessageList[idx[k]]]

\* C24: the violations of every result are exactly the subsequence of the
\* list of fifteen messages selected by the falsy (false or omitted) flags
\* of the present sub-records, the flags taken in declaration order.
C24_SubsequenceOfMessageList ==
  /\ Len(MessageList) = Len(DeclaredOrder)
  /\ \A i \in ValidateCalls :
       log[i].value.violations =
         Selected(FalseFlags(log[i].arg) \cup OmittedFlags(log[i].arg))

C24_Witness ==
  \E i \in ValidateCalls :
    /\ log[i].value.violations =
         <<"Input validation is missing", "Tests not included">>
    /\ FalseFlags(log[i].arg) = {"testsIncluded"}
    /\ OmittedFlags(log[i].arg) = {"inputValidation"}

====
